---- MODULE Spec2Model ----
(***************************************************************************)
(* Model of the CV ranking client (imrakku/aimproject).                    *)
(*                                                                         *)
(*   - App component (src/unnamed/part_002): session state, the sequential *)
(*     batch loop startAnalysis, the scoring function calculateFinalScore, *)
(*     the local-storage and recompute effects, reset, upload and removal. *)
(*   - analyzeCandidate (src/services/gemini.ts): the AI collaborator call *)
(*     and its degradation to a placeholder record.                        *)
(*   - generateCSV (src/unnamed/part_001): the ranked report.              *)
(*   - Dashboard (src/components/Dashboard.tsx): the candidate panels with *)
(*     their generated interview questions and email drafts, the download. *)
(*                                                                         *)
(* Numbers.  finalScore is rawScore / totalWeight in IEEE doubles.  The    *)
(* ratings and weights of the model are integers (weights come from a      *)
(* range slider, ratings are 0..100 scores), so every score is a quotient  *)
(* of two small integers; it is kept as a reduced fraction [num, den].     *)
(* Two such quotients are equal as doubles exactly when they are equal as  *)
(* fractions, and they compare with 50 and 80 as the fractions do, because *)
(* distinct quotients of integers below 10^5 differ by far more than one   *)
(* unit in the last place.  den = 0 stands for NaN (0/0).                  *)
(* Ratings with decimals are scored in a separate copy of the function     *)
(* that carries out each multiplication, addition and division as the      *)
(* double operation does: 53 significant bits, round to nearest, ties to   *)
(* even.                                                                   *)
(***************************************************************************)
EXTENDS Integers, Sequences, FiniteSets, TLC

VARIABLES
    jdFile,                  \* useState jdFile: TRUE when a JD file is set
    cvFiles,                 \* useState cvFiles: Seq of ProcessingFile
    weights,                 \* useState weights
    isProcessing,            \* useState isProcessing
    results,                 \* useState results: Seq of CandidateAnalysis
    currentProcessingIndex,  \* useState currentProcessingIndex
    runs,                    \* the startAnalysis invocations not yet returned
    lastRun,                 \* history: batch and outcomes of a run that just finished undisturbed
    storage,                 \* localStorage: the two keyed blobs
    effects,                 \* useEffect callbacks scheduled by the last render
    budget,                  \* ids handed out and page loads so far (bound the behaviours)
    fn,                      \* harness of the pure functions (SpecFn only)
    dash                     \* state of the mounted Dashboard component

vars == <<jdFile, cvFiles, weights, isProcessing, results, currentProcessingIndex,
          runs, lastRun, storage, effects, budget, fn, dash>>

appVars == <<jdFile, cvFiles, weights, isProcessing, results, currentProcessingIndex,
             runs, lastRun, storage, effects, budget, dash>>

(***************************************************************************)
(* Types (src/types.ts)                                                    *)
(***************************************************************************)
Keys == {"skillsMatch", "experienceRelevance", "qualifications", "seniority", "clarity"}

\* A ScoringWeights / ratings object with the five keys.
Five(a, b, c, d, e) ==
    [skillsMatch |-> a, experienceRelevance |-> b, qualifications |-> c,
     seniority |-> d, clarity |-> e]

DEFAULT_WEIGHTS == Five(35, 30, 15, 10, 10)

ZeroWeights == Five(0, 0, 0, 0, 0)

(***************************************************************************)
(* Numbers: a / b of two integers as a reduced fraction.                   *)
(***************************************************************************)
RECURSIVE Gcd(_, _)
Gcd(a, b) == IF b = 0 THEN a ELSE Gcd(b, a % b)

\* The double a / b (b >= 0, a >= 0); 0 / 0 is NaN, kept as den = 0.
Quot(a, b) ==
    IF b = 0 THEN [num |-> 0, den |-> 0]
    ELSE LET g == Gcd(a, b) IN [num |-> a \div g, den |-> b \div g]

\* The number literal k as a score.
Num(k) == [num |-> k, den |-> 1]

\* x >= k for a score x and an integer k; false for NaN.
Geq(x, k) == x.den > 0 /\ x.num >= k * x.den

\* x <= y for two scores; false when either is NaN.
Leq(x, y) == x.den > 0 /\ y.den > 0 /\ x.num * y.den <= y.num * x.den

(***************************************************************************)
(* calculateFinalScore (src/unnamed/part_002, lines 83-101)                *)
(***************************************************************************)
\* Object.values(w).reduce((a, b) => a + b, 0)
TotalWeight(w) ==
    w.skillsMatch + w.experienceRelevance + w.qualifications + w.seniority + w.clarity

\* Variant: the clarity term counts the distance of the rating from 100.
RawScoreClarityInverted(ratings, w) ==
      (ratings.skillsMatch * w.skillsMatch)
    + (ratings.experienceRelevance * w.experienceRelevance)
    + (ratings.qualifications * w.qualifications)
    + (ratings.seniority * w.seniority)
    + ((100 - ratings.clarity) * w.clarity)

RawScore(ratings, w) ==
      (ratings.skillsMatch * w.skillsMatch)
    + (ratings.experienceRelevance * w.experienceRelevance)
    + (ratings.qualifications * w.qualifications)
    + (ratings.seniority * w.seniority)
    + (ratings.clarity * w.clarity)

\* Variant: the High threshold excludes 80 itself.
FitLabelOfStrict(finalScore) ==
    IF finalScore.den > 0 /\ finalScore.num > 80 * finalScore.den THEN "High"
    ELSE IF Geq(finalScore, 50) THEN "Medium"
    ELSE "Low"

\* Variant: the label starts out as Medium instead of Low (line 96).
FitLabelOfDefaultMedium(finalScore) ==
    IF Geq(finalScore, 80) THEN "High"
    ELSE "Medium"

FitLabelOf(finalScore) ==
    IF Geq(finalScore, 80) THEN "High"
    ELSE IF Geq(finalScore, 50) THEN "Medium"
    ELSE "Low"

\* Variant: normalises by 100 as if the weights always summed to 100.
calculateFinalScorePercent(candidate, w) ==
    LET totalWeight == TotalWeight(w) IN
    IF totalWeight = 0 THEN candidate
    ELSE LET finalScore == Quot(RawScore(candidate.ratings, w), 100)
         IN  [candidate EXCEPT !.finalScore = finalScore,
                               !.fitLabel = FitLabelOf(finalScore)]

\* Variant: no early return for a zero weight sum, so 0 / 0 is stored.
calculateFinalScoreNoGuard(candidate, w) ==
    LET finalScore == Quot(RawScore(candidate.ratings, w), TotalWeight(w))
    IN  [candidate EXCEPT !.finalScore = finalScore,
                          !.fitLabel = FitLabelOf(finalScore)]

\* Variant: the label is taken from candidate.finalScore, the score the
\* candidate came in with, instead of the one just computed.
calculateFinalScoreStaleLabel(candidate, w) ==
    LET totalWeight == TotalWeight(w) IN
    IF totalWeight = 0 THEN candidate
    ELSE LET finalScore == Quot(RawScore(candidate.ratings, w), totalWeight)
         IN  [candidate EXCEPT !.finalScore = finalScore,
                               !.fitLabel = FitLabelOf(candidate.finalScore)]

calculateFinalScore(candidate, w) ==
    LET totalWeight == TotalWeight(w) IN
    IF totalWeight = 0 THEN candidate
    ELSE LET rawScore   == RawScore(candidate.ratings, w)
             finalScore == Quot(rawScore, totalWeight)
         IN  [candidate EXCEPT !.finalScore = finalScore,
                               !.fitLabel = FitLabelOf(finalScore)]

(***************************************************************************)
(* calculateFinalScore in IEEE doubles.  Ratings are JSON numbers          *)
(* (Type.NUMBER), so a rating may carry decimals; its product with a       *)
(* weight, the sum and the quotient are then rounded.  A double is kept as *)
(* its 53-bit significand and its exponent, and every operation rounds to  *)
(* nearest, ties to even, as the build does.  Weights are slider integers. *)
(***************************************************************************)
\* Naturals beyond 31 bits: sequences of 15-bit limbs, most significant
\* first, without leading zero limbs.
Limb == 32768

ZeroLimbs(n) == [k \in 1..n |-> 0]

RECURSIVE StripLimbs(_)
StripLimbs(a) == IF a # <<>> /\ Head(a) = 0 THEN StripLimbs(Tail(a)) ELSE a

BigOf(n) == StripLimbs(<<n \div (Limb * Limb), (n \div Limb) % Limb, n % Limb>>)

\* a * k + carry for 0 <= k < 2^15
RECURSIVE BigMul(_, _, _)
BigMul(a, k, carry) ==
    IF a = <<>> THEN BigOf(carry)
    ELSE LET d == a[Len(a)] * k + carry
         IN  Append(BigMul(SubSeq(a, 1, Len(a) - 1), k, d \div Limb), d % Limb)

\* The limbs of (r * Limb^Len(a) + a) \div d followed by the remainder,
\* for 0 <= r < d < 2^15
RECURSIVE BigDiv(_, _, _)
BigDiv(a, d, r) ==
    IF a = <<>> THEN <<r>>
    ELSE LET y == r * Limb + Head(a)
         IN  <<y \div d>> \o BigDiv(Tail(a), d, y % d)

RECURSIVE BigAdd(_, _, _, _)
BigAdd(a, b, i, carry) ==
    IF i = 0 THEN BigOf(carry)
    ELSE LET s == a[i] + b[i] + carry
         IN  Append(BigAdd(a, b, i - 1, s \div Limb), s % Limb)

RECURSIVE BitLen(_)
BitLen(n) == IF n = 0 THEN 0 ELSE 1 + BitLen(n \div 2)

BigBitLen(a) == IF a = <<>> THEN 0 ELSE 15 * (Len(a) - 1) + BitLen(Head(a))

\* a * 2^s
BigShiftLeft(a, s) == StripLimbs(BigMul(a, 2 ^ (s % 15), 0)) \o ZeroLimbs(s \div 15)

\* <<a \div 2^s, whether a bit was dropped>>
BigShiftRight(a, s) ==
    LET j == s \div 15
        kept == SubSeq(a, 1, Len(a) - j)
        dv == BigDiv(kept, 2 ^ (s % 15), 0)
    IN  <<StripLimbs(SubSeq(dv, 1, Len(dv) - 1)),
          dv[Len(dv)] # 0 \/ \E k \in (Len(a) - j + 1)..Len(a) : a[k] # 0>>

\* A double m * 2^e with 2^52 <= m < 2^53, or zero.
DZero == [m |-> <<>>, e |-> 0]

\* The double nearest to a * 2^e (+ a fraction of 2^e when sticky), ties to
\* even; sticky only with a of 54 bits or more.
RoundToDouble(a, sticky, e) ==
    LET len == BigBitLen(a) IN
    IF len = 0 THEN DZero
    ELSE IF len <= 53 THEN [m |-> BigShiftLeft(a, 53 - len), e |-> e - (53 - len)]
    ELSE LET sh == BigShiftRight(a, len - 54)
             q2 == sh[1]
             guard == q2[Len(q2)] % 2 = 1
             q == BigShiftRight(q2, 1)[1]
             up == guard /\ (sticky \/ sh[2] \/ q[Len(q)] % 2 = 1)
             m == IF up THEN StripLimbs(BigAdd(q, ZeroLimbs(Len(q)), Len(q), 1)) ELSE q
         IN  IF BigBitLen(m) = 54 THEN [m |-> BigShiftRight(m, 1)[1], e |-> e + len - 53 + 1]
             ELSE [m |-> m, e |-> e + len - 53]

\* The double a decimal literal n / 10^k of the response text denotes
\* (JSON.parse, gemini.ts line 110), n < 2^31, 10^k < 2^15
DFromDecimal(n, k) ==
    LET dv == BigDiv(BigShiftLeft(BigOf(n), 64), 10 ^ k, 0)
    IN  RoundToDouble(StripLimbs(SubSeq(dv, 1, Len(dv) - 1)), dv[Len(dv)] # 0, -64)

\* d * k for an integer 0 <= k < 2^15
DMulInt(d, k) ==
    IF k = 0 \/ d.m = <<>> THEN DZero ELSE RoundToDouble(StripLimbs(BigMul(d.m, k, 0)), FALSE, d.e)

\* d / k for an integer 0 < k < 2^15
DDivInt(d, k) ==
    IF d.m = <<>> THEN DZero
    ELSE LET dv == BigDiv(BigShiftLeft(d.m, 17), k, 0)
         IN  RoundToDouble(StripLimbs(SubSeq(dv, 1, Len(dv) - 1)), dv[Len(dv)] # 0, d.e - 17)

DAdd(a, b) ==
    IF a.m = <<>> THEN b ELSE IF b.m = <<>> THEN a
    ELSE LET e == IF a.e < b.e THEN a.e ELSE b.e
             pa == BigShiftLeft(a.m, a.e - e)
             pb == BigShiftLeft(b.m, b.e - e)
             n == IF Len(pa) > Len(pb) THEN Len(pa) ELSE Len(pb)
         IN  RoundToDouble(StripLimbs(BigAdd(ZeroLimbs(n - Len(pa)) \o pa,
                                             ZeroLimbs(n - Len(pb)) \o pb, n, 0)), FALSE, e)

\* a <= b for two significands of the same length
RECURSIVE BigLeq(_, _, _)
BigLeq(a, b, i) ==
    IF i > Len(a) THEN TRUE
    ELSE IF a[i] # b[i] THEN a[i] < b[i]
    ELSE BigLeq(a, b, i + 1)

\* a <= b for two doubles that are not negative
DLeq(a, b) ==
    IF a.m = <<>> THEN TRUE
    ELSE IF b.m = <<>> THEN FALSE
    ELSE a.e < b.e \/ (a.e = b.e /\ BigLeq(a.m, b.m, 1))

\* Variant: the weights of skillsMatch and experienceRelevance are swapped.
RawScoreIEEEKeysCrossed(ratings, w) ==
    DAdd(DAdd(DAdd(DAdd(DMulInt(ratings.skillsMatch, w.experienceRelevance),
                        DMulInt(ratings.experienceRelevance, w.skillsMatch)),
                   DMulInt(ratings.qualifications, w.qualifications)),
              DMulInt(ratings.seniority, w.seniority)),
         DMulInt(ratings.clarity, w.clarity))

\* lines 87-92, the sum evaluated left to right
RawScoreIEEE(ratings, w) ==
    DAdd(DAdd(DAdd(DAdd(DMulInt(ratings.skillsMatch, w.skillsMatch),
                        DMulInt(ratings.experienceRelevance, w.experienceRelevance)),
                   DMulInt(ratings.qualifications, w.qualifications)),
              DMulInt(ratings.seniority, w.seniority)),
         DMulInt(ratings.clarity, w.clarity))

FitLabelOfIEEE(finalScore) ==
    IF DLeq(DFromDecimal(80, 0), finalScore) THEN "High"
    ELSE IF DLeq(DFromDecimal(50, 0), finalScore) THEN "Medium"
    ELSE "Low"

calculateFinalScoreIEEE(candidate, w) ==
    LET totalWeight == TotalWeight(w) IN
    IF totalWeight = 0 THEN candidate
    ELSE LET rawScore   == RawScoreIEEE(candidate.ratings, w)
             finalScore == DDivInt(rawScore, totalWeight)
         IN  [candidate EXCEPT !.finalScore = finalScore,
                               !.fitLabel = FitLabelOfIEEE(finalScore)]

(***************************************************************************)
(* analyzeCandidate (src/services/gemini.ts, lines 57-134)                 *)
(*                                                                         *)
(* env is what the call meets: whether process.env.API_KEY is set, whether *)
(* generateContent resolves, whether response.text is non-empty, whether   *)
(* JSON.parse accepts it, and the record the text parses to.  A completed  *)
(* call is [threw, value]: threw is TRUE when an exception leaves it.      *)
(***************************************************************************)
Return(v) == [threw |-> FALSE, value |-> v]

Throw(msg) == [threw |-> TRUE, value |-> msg]

PLACEHOLDER_NAME == "Unknown Candidate (Parse Error)"

PLACEHOLDER_REASONING ==
    "An error occurred during AI processing. Please check the file format or try again."

\* The record the catch block returns (lines 115-132).
PlaceholderRecord ==
    [candidateName |-> PLACEHOLDER_NAME,
     ratings       |-> Five(0, 0, 0, 0, 0),
     reasoning     |-> PLACEHOLDER_REASONING]

\* The try block (lines 64-111).
AnalyzeTry(env) ==
    IF ~env.apiKey THEN Throw("API Key not found")
    ELSE IF ~env.requestOk THEN Throw("generateContent rejected")
    ELSE IF ~env.hasText THEN Throw("No response from AI")
    ELSE IF ~env.parses THEN Throw("SyntaxError")
    ELSE Return(env.data)

\* Variant: the API key is checked before the try block, as
\* generateInterviewQuestions does (lines 137-138).
analyzeCandidateKeyCheckOutside(env) ==
    IF ~env.apiKey THEN Throw("API Key not found")
    ELSE LET r == AnalyzeTry(env) IN
         IF r.threw THEN Return(PlaceholderRecord) ELSE r

analyzeCandidate(env) ==
    LET r == AnalyzeTry(env) IN
    IF r.threw THEN Return(PlaceholderRecord) ELSE r

(***************************************************************************)
(* generateCSV (src/unnamed/part_001, lines 17-45)                         *)
(*                                                                         *)
(* A text is a sequence of characters.  The report is kept as its rows,    *)
(* each the sequence of its fields, before the joins of line 44.           *)
(***************************************************************************)
CSV_HEADERS ==
    <<"Rank", "Name", "Total Score", "Fit Label", "Skills Match (0-100)",
      "Experience (0-100)", "Qualifications (0-100)", "Strengths", "Weaknesses">>

\* n.toString() for a whole number n >= 0: its decimal digits
RECURSIVE ToDigits(_)
ToDigits(n) == IF n < 10 THEN <<n>> ELSE Append(ToDigits(n \div 10), n % 10)

\* x.toFixed(1): the digits before the point and the digit after it, the
\* tenth nearest to x (the upper one when x is halfway between two)
ToFixed1(x) ==
    LET tenths == (20 * x.num + x.den) \div (2 * x.den)
    IN  [whole |-> ToDigits(tenths \div 10), tenth |-> tenths % 10]

\* s.replace(/"/g, '""')
RECURSIVE DoubleQuotes(_)
DoubleQuotes(text) ==
    IF text = <<>> THEN <<>>
    ELSE (IF Head(text) = "\"" THEN <<"\"", "\"">> ELSE <<Head(text)>>)
         \o DoubleQuotes(Tail(text))

\* texts.join('; ')
RECURSIVE JoinSemi(_)
JoinSemi(texts) ==
    IF texts = <<>> THEN <<>>
    ELSE IF Len(texts) = 1 THEN texts[1]
    ELSE texts[1] \o <<";", " ">> \o JoinSemi(Tail(texts))

\* `"${s.replace(/"/g, '""')}"`
CsvQuoted(text) == <<"\"">> \o DoubleQuotes(text) \o <<"\"">>

\* (a, b) => b.finalScore - a.finalScore is negative: a goes before b.
\* With ascending the operands are exchanged.
ComesBefore(a, b, ascending) ==
    IF ascending THEN ~Leq(b.finalScore, a.finalScore) ELSE ~Leq(a.finalScore, b.finalScore)

\* Array.prototype.sort is stable: c goes behind every element that the
\* comparator does not put behind it.
RECURSIVE InsertSorted(_, _, _)
InsertSorted(sorted, c, ascending) ==
    IF sorted = <<>> THEN <<c>>
    ELSE IF ComesBefore(c, Head(sorted), ascending) THEN <<c>> \o sorted
    ELSE <<Head(sorted)>> \o InsertSorted(Tail(sorted), c, ascending)

RECURSIVE SortByScore(_, _)
SortByScore(list, ascending) ==
    IF list = <<>> THEN <<>>
    ELSE InsertSorted(SortByScore(SubSeq(list, 1, Len(list) - 1), ascending),
                      list[Len(list)], ascending)

\* lines 32-42
CsvRow(c, index) ==
    <<ToDigits(index + 1), CsvQuoted(c.candidateName), ToFixed1(c.finalScore), c.fitLabel,
      ToDigits(c.ratings.skillsMatch), ToDigits(c.ratings.experienceRelevance),
      ToDigits(c.ratings.qualifications),
      CsvQuoted(JoinSemi(c.strengths)), CsvQuoted(JoinSemi(c.weaknesses))>>

\* Variant: the comparator is a.finalScore - b.finalScore.
generateCSVAscending(candidates) ==
    LET sorted == SortByScore(candidates, TRUE)
    IN  [csv |-> <<CSV_HEADERS>> \o [k \in 1..Len(sorted) |-> CsvRow(sorted[k], k - 1)],
         candidates |-> sorted]

\* The report, and the array `candidates` as the call leaves it: sort
\* orders the array it is called on (line 31).
generateCSV(candidates) ==
    LET sorted == SortByScore(candidates, FALSE)
    IN  [csv |-> <<CSV_HEADERS>> \o [k \in 1..Len(sorted) |-> CsvRow(sorted[k], k - 1)],
         candidates |-> sorted]

(***************************************************************************)
(* Input sets                                                              *)
(***************************************************************************)
\* Ratings the collaborator may return (0-100 scores, RESPONSE_SCHEMA).
RatingGrid == {0, 80, 100}

\* Slider positions (min 0, max 100, step 5) used for the weights.
WeightGrid == {0, 10, 35}

FiveOver(S) ==
    { Five(a, b, c, d, e) : a \in S, b \in S, c \in S, d \in S, e \in S }

\* An AIResponseRaw as parsed from the collaborator's JSON.
RawRecord(ratings) ==
    [candidateName |-> "Parsed Name", ratings |-> ratings, reasoning |-> "Model rationale"]

\* The object startAnalysis hands to calculateFinalScore (lines 199-204).
Unscored(raw, id) ==
    [id |-> id, candidateName |-> raw.candidateName, ratings |-> raw.ratings,
     reasoning |-> raw.reasoning, finalScore |-> Num(0), fitLabel |-> "Low"]

Env(k, q, t, p, d) ==
    [apiKey |-> k, requestOk |-> q, hasText |-> t, parses |-> p, data |-> d]

EnvsOver(D) ==
    { Env(k, q, t, p, d) : k \in BOOLEAN, q \in BOOLEAN, t \in BOOLEAN,
                           p \in BOOLEAN, d \in D }

\* The call meets a failure: no key, a rejected request, no text, or bad JSON.
EnvFails(env) == ~env.apiKey \/ ~env.requestOk \/ ~env.hasText \/ ~env.parses

(***************************************************************************)
(* Harness of the pure functions: the inputs are drawn in FnInit and the   *)
(* actions apply calculateFinalScore and analyzeCandidate to them.         *)
(***************************************************************************)
FnBlank ==
    [kind |-> "none", phase |-> "idle",
     c |-> Unscored(RawRecord(ZeroWeights), 0), stored |-> Unscored(RawRecord(ZeroWeights), 0),
     w |-> DEFAULT_WEIGHTS,
     out |-> Unscored(RawRecord(ZeroWeights), 0), outStored |-> Unscored(RawRecord(ZeroWeights), 0),
     again |-> Unscored(RawRecord(ZeroWeights), 0),
     hi |-> Unscored(RawRecord(ZeroWeights), 0), outHi |-> Unscored(RawRecord(ZeroWeights), 0),
     lit |-> [n |-> 0, k |-> 0], outIEEE |-> Unscored(RawRecord(ZeroWeights), 0),
     list |-> <<>>, report |-> [csv |-> <<>>, candidates |-> <<>>],
     env |-> Env(TRUE, TRUE, TRUE, TRUE, RawRecord(ZeroWeights)),
     call |-> Return(PlaceholderRecord)]

\* c is a candidate as first scored in a batch run (placeholder score 0, Low);
\* stored is the same candidate as it sits in the Result Store after having
\* been scored under the default weights, the input of the recompute effect.
FnScoreInputs ==
    { [FnBlank EXCEPT !.kind = "score", !.phase = "input",
                      !.c = Unscored(RawRecord(r), 1),
                      !.stored = calculateFinalScore(Unscored(RawRecord(r), 1), DEFAULT_WEIGHTS),
                      !.w = w] : r \in FiveOver(RatingGrid), w \in FiveOver(WeightGrid) }

\* A rating and a higher one.
RaisedPairs == { p \in RatingGrid \X RatingGrid : p[1] < p[2] }

\* c and hi are two candidates as first scored whose ratings differ in one
\* key, where hi has the higher rating.
FnRaiseInput(r, key, p, w) ==
    [FnBlank EXCEPT !.kind = "raise", !.phase = "input",
                    !.c = Unscored(RawRecord([r EXCEPT ![key] = p[1]]), 1),
                    !.hi = Unscored(RawRecord([r EXCEPT ![key] = p[2]]), 1),
                    !.w = w]

\* Decimal places of a rating literal, and the literals n / 10^k of a
\* skillsMatch rating: every rating of 0..100 with up to two decimals, and
\* the ratings of 0..1 with three.
MaxDecimals == 3

RatingLiterals ==
    { [n |-> n, k |-> 2] : n \in 0..10000 } \cup { [n |-> n, k |-> MaxDecimals] : n \in 0..1000 }

SkillsOnlyWeights == Five(100, 0, 0, 0, 0)

\* A candidate as first scored whose skillsMatch rating is the literal lit
\* and whose other ratings are the whole number other.
FnIEEEInput(lit, other, w) ==
    [FnBlank EXCEPT !.kind = "ieee", !.phase = "input", !.lit = lit, !.w = w,
                    !.c = [Unscored(RawRecord(
                              Five(DFromDecimal(lit.n, lit.k), DFromDecimal(other, 0),
                                   DFromDecimal(other, 0), DFromDecimal(other, 0),
                                   DFromDecimal(other, 0))), 1)
                           EXCEPT !.finalScore = DZero]]

\* Candidates handed to generateCSV at once.
MaxCsv == 3

\* finalScores of the candidates of a report: 91.2, 54, 100 and 0.
CsvScores == { Quot(456, 5), Num(54), Num(100), Num(0) }

\* The second candidate has a name with a comma and quotes in it.
CsvName(id) ==
    IF id = 2 THEN <<"B", "o", ",", " ", "\"", "J", "\"">> ELSE <<"A", "d", "a">>

\* A CandidateAnalysis with the fields generateCSV reads.
CsvCandidate(id, score) ==
    [id |-> id, candidateName |-> CsvName(id), ratings |-> Five(90, 5, 100, 0, 0),
     strengths |-> << <<"S", "Q", "L">>, <<"\"", "G", "o", "\"">> >>, weaknesses |-> <<>>,
     finalScore |-> score, fitLabel |-> FitLabelOf(score)]

FnCsvInputs ==
    { [FnBlank EXCEPT !.kind = "csv", !.phase = "input",
                      !.list = [k \in 1..n |-> CsvCandidate(k, scores[k])]] :
        n \in 0..MaxCsv, scores \in [1..MaxCsv -> CsvScores] }

FnAnalyzeInputs ==
    { [FnBlank EXCEPT !.kind = "analyze", !.phase = "input", !.env = e] :
        e \in EnvsOver({ RawRecord(r) : r \in FiveOver(RatingGrid) }) }

FnScore ==
    /\ fn.kind = "score" /\ fn.phase = "input"
    /\ fn' = [fn EXCEPT !.phase = "scored",
                        !.out = calculateFinalScore(fn.c, fn.w),
                        !.outStored = calculateFinalScore(fn.stored, fn.w)]
    /\ UNCHANGED appVars

FnRescore ==
    /\ fn.kind = "score" /\ fn.phase = "scored"
    /\ fn' = [fn EXCEPT !.phase = "rescored",
                        !.again = calculateFinalScore(fn.out, fn.w)]
    /\ UNCHANGED appVars

FnRaise ==
    /\ fn.kind = "raise" /\ fn.phase = "input"
    /\ fn' = [fn EXCEPT !.phase = "raised",
                        !.out = calculateFinalScore(fn.c, fn.w),
                        !.outHi = calculateFinalScore(fn.hi, fn.w)]
    /\ UNCHANGED appVars

FnScoreIEEE ==
    /\ fn.kind = "ieee" /\ fn.phase = "input"
    /\ fn' = [fn EXCEPT !.phase = "scored", !.outIEEE = calculateFinalScoreIEEE(fn.c, fn.w)]
    /\ UNCHANGED appVars

FnGenerateCsv ==
    /\ fn.kind = "csv" /\ fn.phase = "input"
    /\ fn' = [fn EXCEPT !.phase = "exported", !.report = generateCSV(fn.list)]
    /\ UNCHANGED appVars

FnAnalyze ==
    /\ fn.kind = "analyze" /\ fn.phase = "input"
    /\ fn' = [fn EXCEPT !.phase = "analyzed", !.call = analyzeCandidate(fn.env)]
    /\ UNCHANGED appVars

FnNext == FnScore \/ FnRescore \/ FnRaise \/ FnScoreIEEE \/ FnGenerateCsv \/ FnAnalyze

(***************************************************************************)
(* The two local-storage blobs (src/unnamed/part_002, lines 33-59)         *)
(*                                                                         *)
(* JSON.stringify writes an object as its key/value pairs in insertion     *)
(* order, an integer as itself, a finite double as the shortest decimal    *)
(* that reads back as the same double, and NaN as null.                    *)
(***************************************************************************)
KeyOrder == <<"skillsMatch", "experienceRelevance", "qualifications", "seniority", "clarity">>

\* JSON.stringify(weights), line 52
StringifyWeights(w) == [k \in 1..Len(KeyOrder) |-> <<KeyOrder[k], w[KeyOrder[k]]>>]

\* JSON.parse(savedWeights), line 39
ParseWeights(text) ==
    [key \in { text[k][1] : k \in 1..Len(text) } |->
        LET k == CHOOSE j \in 1..Len(text) :
                    text[j][1] = key /\ \A i \in (j + 1)..Len(text) : text[i][1] # key
        IN  text[k][2]]

\* null in place of a number
JsonNull == [num |-> 0, den |-> -1]

\* JSON.stringify(results), line 57
StringifyResults(rs) ==
    [k \in 1..Len(rs) |->
        [rs[k] EXCEPT !.finalScore = IF rs[k].finalScore.den = 0 THEN JsonNull
                                     ELSE rs[k].finalScore]]

\* JSON.parse(savedResults), line 45
ParseResults(text) == text

(***************************************************************************)
(* App (src/unnamed/part_002)                                              *)
(***************************************************************************)
\* Files uploaded in a session, and startAnalysis invocations that may be
\* open at once (the second is reached only if the Run button lets it).
MaxFiles == 3
MaxRuns == 2

\* Times the page is loaded again within a behaviour.
MaxReloads == 1

\* Ratings the collaborator returns in the App runs; the score they give
\* moves with the weights (the placeholder's score of 0 does not).
AppRatings == { Five(100, 0, 80, 80, 80) }

\* What an analyzeCandidate call of a batch run may meet: a conforming
\* response, a rejected request, or a response that does not parse.
AppEnvs ==
    { Env(TRUE, TRUE, TRUE, TRUE, RawRecord(r)) : r \in AppRatings }
    \cup { Env(TRUE, FALSE, TRUE, TRUE, RawRecord(ZeroWeights)),
           Env(TRUE, TRUE, TRUE, FALSE, RawRecord(ZeroWeights)) }

\* Weights found in local storage at startup: the defaults, or a
\* configuration a previous session left.
StartWeights == { DEFAULT_WEIGHTS, Five(35, 0, 0, 0, 0) }

\* The slider moved and the positions it is moved to.
SliderKeys == {"skillsMatch"}
SliderValues == {0, 35}

\* The Dashboard as it mounts (Dashboard.tsx, lines 17-23): no candidate
\* expanded, the Assessment tab, nothing generated, nothing loading; with
\* it the requests to the collaborator that its handlers have in flight.
\* App renders the component only while the Result Store is not empty
\* (part_002, lines 426-427).
\* An entry of emailMap records, next to the text, the type the text was
\* asked for.
NoQuestions == [stored |-> FALSE, value |-> <<>>]

NoEmail == [stored |-> FALSE, value |-> "", type |-> ""]

DashBlank ==
    [expandedId |-> 0, activeTab |-> "analysis",
     questionsMap |-> [id \in 1..MaxFiles |-> NoQuestions],
     emailMap |-> [id \in 1..MaxFiles |-> NoEmail],
     loadingAction |-> "", requests |-> <<>>]

\* processFiles, lines 112-116: a new ProcessingFile.
NewFile(id) == [id |-> id, status |-> "pending", error |-> ""]

\* prev.map((f, idx) => idx === i ? { ...f, status } : f), i counted from 0
MarkStatus(files, i, status) ==
    [k \in 1..Len(files) |->
        IF k = i + 1 THEN [files[k] EXCEPT !.status = status] ELSE files[k]]

\* prev.map((f, idx) => idx === i ? { ...f, status: 'error', error: 'Failed to analyze' } : f)
MarkError(files, i) ==
    [k \in 1..Len(files) |->
        IF k = i + 1 THEN [files[k] EXCEPT !.status = "error", !.error = "Failed to analyze"]
        ELSE files[k]]

\* prev.filter(f => f.id !== id)
WithoutId(files, id) == SelectSeq(files, LAMBDA f : f.id # id)

RemoveAt(s, r) == [k \in 1..(Len(s) - 1) |-> IF k < r THEN s[k] ELSE s[k + 1]]

\* History.  A run records how the handling of each file of its batch ended
\* ("ok", "aiFailed", "readFailed", "aiThrew") for as long as the user does
\* nothing; lastRun is that record of a run that finished undisturbed, kept
\* until the user's next action.  A run also records in `cleared` that the
\* session was reset while it was open.
Touched(rs) == [k \in 1..Len(rs) |-> [rs[k] EXCEPT !.acted = TRUE, !.outcomes = <<>>]]

NoRun == [valid |-> FALSE, batch |-> <<>>, outcomes |-> <<>>]

\* Event handlers run after the effects of the last render.
UserActs ==
    /\ effects = {}
    /\ lastRun' = NoRun

Init ==
    /\ jdFile = FALSE
    /\ cvFiles = <<>>
    /\ weights \in StartWeights
    /\ isProcessing = FALSE
    /\ results = <<>>
    /\ currentProcessingIndex = -1
    /\ runs = <<>>
    /\ lastRun = NoRun
    /\ storage = [hasWeights |-> TRUE, weights |-> StringifyWeights(weights),
                  hasResults |-> FALSE, results |-> <<>>]
    /\ effects = {}
    /\ budget = [ids |-> 0, reloads |-> 0]
    /\ fn = FnBlank
    /\ dash = DashBlank

\* handleJdUpload, lines 103-107 (choosing a file while one is set replaces
\* it, which changes nothing this model keeps of the file)
HandleJdUpload ==
    /\ UserActs
    /\ ~jdFile
    /\ jdFile' = TRUE
    /\ runs' = Touched(runs)
    /\ UNCHANGED <<cvFiles, weights, isProcessing, results, currentProcessingIndex,
                   storage, effects, budget, fn, dash>>

\* the JD remove button, line 291
RemoveJd ==
    /\ UserActs
    /\ jdFile
    /\ jdFile' = FALSE
    /\ runs' = Touched(runs)
    /\ UNCHANGED <<cvFiles, weights, isProcessing, results, currentProcessingIndex,
                   storage, effects, budget, fn, dash>>

\* processFiles, lines 109-118 (handleCvUpload and handleDrop call it)
ProcessFiles(n) ==
    /\ UserActs
    /\ budget.ids + n <= MaxFiles
    /\ cvFiles' = cvFiles \o [k \in 1..n |-> NewFile(budget.ids + k)]
    /\ budget' = [budget EXCEPT !.ids = @ + n]
    /\ runs' = Touched(runs)
    /\ UNCHANGED <<jdFile, weights, isProcessing, results, currentProcessingIndex,
                   storage, effects, fn, dash>>

\* Variant: removing a file also takes it out of the part of an open run's
\* batch that the loop has not reached.
RemoveCvCancelling(k) ==
    /\ UserActs
    /\ cvFiles[k].status # "processing"
    /\ cvFiles' = WithoutId(cvFiles, cvFiles[k].id)
    /\ runs' = [r \in 1..Len(runs) |->
                  [Touched(runs)[r] EXCEPT
                      !.batch = SubSeq(@, 1, runs[r].i + 1)
                                \o SelectSeq(SubSeq(@, runs[r].i + 2, Len(@)),
                                             LAMBDA id : id # cvFiles[k].id)]]
    /\ UNCHANGED <<jdFile, weights, isProcessing, results, currentProcessingIndex,
                   storage, effects, budget, fn, dash>>

\* removeCv, lines 145-147; its button is disabled for a file being processed
\* (line 379)
RemoveCv(k) ==
    /\ UserActs
    /\ cvFiles[k].status # "processing"
    /\ cvFiles' = WithoutId(cvFiles, cvFiles[k].id)
    /\ runs' = Touched(runs)
    /\ UNCHANGED <<jdFile, weights, isProcessing, results, currentProcessingIndex,
                   storage, effects, budget, fn, dash>>

\* handleChange of ScoringConfig (part_000, lines 12-14); the sliders are
\* disabled while isProcessing (part_002 line 423, part_000 line 47)
SetWeight(key, value) ==
    /\ UserActs
    /\ ~isProcessing
    /\ weights[key] # value
    /\ weights' = [weights EXCEPT ![key] = value]
    /\ effects' = {"saveWeights", "recompute"}
    /\ runs' = Touched(runs)
    /\ UNCHANGED <<jdFile, cvFiles, isProcessing, results, currentProcessingIndex,
                   storage, budget, fn, dash>>

\* clearAllData, lines 74-81, the user confirming; the button is rendered
\* when results.length > 0 (line 247)
ClearAllData ==
    /\ UserActs
    /\ Len(results) > 0
    /\ results' = <<>>
    /\ cvFiles' = <<>>
    /\ jdFile' = FALSE
    /\ storage' = [storage EXCEPT !.hasResults = FALSE, !.results = <<>>]
    /\ effects' = {"saveResults", "recompute"}
    /\ runs' = [r \in 1..Len(runs) |-> [Touched(runs)[r] EXCEPT !.cleared = TRUE]]
    /\ dash' = DashBlank
    /\ UNCHANGED <<weights, isProcessing, currentProcessingIndex, budget, fn>>

\* Variant: the save-weights effect of the first render runs before the
\* load effect reads the storage.
ReloadSavingBeforeLoading ==
    /\ UserActs
    /\ budget.reloads < MaxReloads
    /\ budget' = [budget EXCEPT !.reloads = @ + 1]
    /\ jdFile' = FALSE
    /\ cvFiles' = <<>>
    /\ isProcessing' = FALSE
    /\ currentProcessingIndex' = -1
    /\ runs' = <<>>
    /\ weights' = DEFAULT_WEIGHTS
    /\ results' = IF storage.hasResults THEN ParseResults(storage.results) ELSE <<>>
    /\ storage' = [storage EXCEPT !.hasWeights = TRUE,
                                  !.weights = StringifyWeights(DEFAULT_WEIGHTS)]
    /\ effects' = {"saveWeights", "recompute"}
                   \cup (IF storage.hasResults THEN {"saveResults"} ELSE {})
    /\ dash' = DashBlank
    /\ UNCHANGED fn

\* The page is loaded again: the state of the previous session is gone and
\* the invocations it left open with it, the component mounts with the
\* initial values of lines 19-24 and the effects of the first render run in
\* source order.  The load effect (lines 33-48) reads both blobs and sets
\* the state for the next render, the save-weights effect (lines 51-53)
\* writes the weights of the first render, which are the defaults, and the
\* other two effects do nothing on an empty result list.  What is left to
\* run are the effects of the render with the loaded state.
Reload ==
    /\ UserActs
    /\ budget.reloads < MaxReloads
    /\ budget' = [budget EXCEPT !.reloads = @ + 1]
    /\ jdFile' = FALSE
    /\ cvFiles' = <<>>
    /\ isProcessing' = FALSE
    /\ currentProcessingIndex' = -1
    /\ runs' = <<>>
    /\ weights' = IF storage.hasWeights THEN ParseWeights(storage.weights)
                  ELSE DEFAULT_WEIGHTS
    /\ results' = IF storage.hasResults THEN ParseResults(storage.results) ELSE <<>>
    /\ storage' = [storage EXCEPT !.hasWeights = TRUE,
                                  !.weights = StringifyWeights(DEFAULT_WEIGHTS)]
    /\ effects' = (IF storage.hasWeights THEN {"saveWeights", "recompute"} ELSE {})
                   \cup (IF storage.hasResults THEN {"saveResults", "recompute"} ELSE {})
    /\ dash' = DashBlank
    /\ UNCHANGED fn

\* Variant: the button does not look at isProcessing.
RunButtonDisabledIgnoringBusy == ~jdFile \/ Len(cvFiles) = 0

\* disabled={isProcessing || !jdFile || cvFiles.length === 0}, line 393
RunButtonDisabled == isProcessing \/ ~jdFile \/ Len(cvFiles) = 0

\* startAnalysis up to its first await, lines 172-179
StartAnalysis ==
    /\ UserActs
    /\ ~RunButtonDisabled
    /\ jdFile /\ Len(cvFiles) # 0
    /\ Len(runs) < MaxRuns
    /\ isProcessing' = TRUE
    /\ results' = <<>>
    /\ runs' = Append(Touched(runs),
                      [pc |-> "readJd", i |-> 0,
                       batch |-> [k \in 1..Len(cvFiles) |-> cvFiles[k].id],
                       w |-> weights, outcomes |-> <<>>, acted |-> FALSE,
                       cleared |-> FALSE])
    /\ effects' = {"saveResults"} \cup (IF Len(results) # 0 THEN {"recompute"} ELSE {})
    /\ dash' = DashBlank
    /\ UNCHANGED <<jdFile, cvFiles, weights, currentProcessingIndex, storage, budget, fn>>

\* The loop of run r arrives at index j with the file list as `files`: the
\* head of the next iteration (lines 184-189 up to the await of line 192), or
\* past the last file the finally block (lines 219-222).
Arrive(r, j, files, outcomes) ==
    LET run == runs[r]
        log == IF run.acted THEN <<>> ELSE outcomes
    IN
    IF j < Len(run.batch)
    THEN /\ currentProcessingIndex' = j
         /\ cvFiles' = MarkStatus(files, j, "processing")
         /\ runs' = [runs EXCEPT ![r] = [run EXCEPT !.pc = "readCv", !.i = j,
                                                    !.outcomes = log]]
         /\ UNCHANGED <<isProcessing, lastRun>>
    ELSE /\ cvFiles' = files
         /\ isProcessing' = FALSE
         /\ currentProcessingIndex' = -1
         /\ runs' = RemoveAt(runs, r)
         /\ lastRun' = IF run.acted THEN NoRun
                       ELSE [valid |-> TRUE, batch |-> run.batch, outcomes |-> log]

\* await fileToBase64(jdFile), line 179: resolved, the loop starts; rejected,
\* the outer catch and the finally block run (lines 217-222)
JdRead(r, ok) ==
    /\ effects = {}
    /\ runs[r].pc = "readJd"
    /\ IF ok
       THEN Arrive(r, 0, cvFiles, <<>>)
       ELSE Arrive(r, Len(runs[r].batch), cvFiles, <<>>)
    /\ UNCHANGED <<jdFile, weights, results, storage, effects, budget, fn, dash>>

\* await fileToBase64(cv.file), line 192: resolved, analyzeCandidate is called
\* (line 196); rejected, the inner catch marks index i (lines 212-215)
CvRead(r, ok) ==
    /\ effects = {}
    /\ runs[r].pc = "readCv"
    /\ IF ok
       THEN /\ runs' = [runs EXCEPT ![r].pc = "analyze"]
            /\ UNCHANGED <<cvFiles, isProcessing, currentProcessingIndex, lastRun>>
       ELSE Arrive(r, runs[r].i + 1, MarkError(cvFiles, runs[r].i),
                   Append(runs[r].outcomes, "readFailed"))
    /\ UNCHANGED <<jdFile, weights, results, storage, effects, budget, fn, dash>>

\* await analyzeCandidate(...) returns, lines 196-215
AiReturn(r, env) ==
    LET run  == runs[r]
        call == analyzeCandidate(env)
    IN
    /\ effects = {}
    /\ run.pc = "analyze"
    /\ IF call.threw
       THEN /\ Arrive(r, run.i + 1, MarkError(cvFiles, run.i),
                      Append(run.outcomes, "aiThrew"))
            /\ UNCHANGED <<results, effects>>
       ELSE LET fullResult ==
                    calculateFinalScore(Unscored(call.value, run.batch[run.i + 1]), run.w)
            IN  /\ results' = Append(results, fullResult)
                /\ effects' = {"saveResults", "recompute"}
                /\ Arrive(r, run.i + 1, MarkStatus(cvFiles, run.i, "completed"),
                          Append(run.outcomes, IF EnvFails(env) THEN "aiFailed" ELSE "ok"))
    /\ UNCHANGED <<jdFile, weights, storage, budget, fn, dash>>

\* useEffect of lines 51-53
SaveWeightsEffect ==
    /\ "saveWeights" \in effects
    /\ storage' = [storage EXCEPT !.hasWeights = TRUE, !.weights = StringifyWeights(weights)]
    /\ effects' = effects \ {"saveWeights"}
    /\ UNCHANGED <<jdFile, cvFiles, weights, isProcessing, results,
                   currentProcessingIndex, runs, lastRun, budget, fn, dash>>

\* useEffect of lines 55-59
SaveResultsEffect ==
    /\ "saveResults" \in effects
    /\ "saveWeights" \notin effects
    /\ storage' = IF Len(results) > 0
                  THEN [storage EXCEPT !.hasResults = TRUE,
                                       !.results = StringifyResults(results)]
                  ELSE storage
    /\ effects' = effects \ {"saveResults"}
    /\ UNCHANGED <<jdFile, cvFiles, weights, isProcessing, results,
                   currentProcessingIndex, runs, lastRun, budget, fn, dash>>

\* results.map(r => r.finalScore).join(',')
ScoreString(rs) == [k \in 1..Len(rs) |-> rs[k].finalScore]

\* Variant: the scores are recomputed under DEFAULT_WEIGHTS.
RecomputeEffectDefaultWeights ==
    LET updatedResults ==
            [k \in 1..Len(results) |-> calculateFinalScore(results[k], DEFAULT_WEIGHTS)]
    IN
    /\ effects = {"recompute"}
    /\ IF Len(results) > 0 /\ ScoreString(results) # ScoreString(updatedResults)
       THEN /\ results' = updatedResults
            /\ effects' = {"saveResults"}
       ELSE /\ results' = results
            /\ effects' = {}
    /\ UNCHANGED <<jdFile, cvFiles, weights, isProcessing, currentProcessingIndex,
                   runs, lastRun, storage, budget, fn, dash>>

\* Variant: the recomputed list is put newest first.
RecomputeEffectNewestFirst ==
    LET updatedResults ==
            [k \in 1..Len(results) |->
                calculateFinalScore(results[Len(results) + 1 - k], weights)]
    IN
    /\ effects = {"recompute"}
    /\ IF Len(results) > 0 /\ ScoreString(results) # ScoreString(updatedResults)
       THEN /\ results' = updatedResults
            /\ effects' = {"saveResults"}
       ELSE /\ results' = results
            /\ effects' = {}
    /\ UNCHANGED <<jdFile, cvFiles, weights, isProcessing, currentProcessingIndex,
                   runs, lastRun, storage, budget, fn, dash>>

\* Variant: the recomputed list is stored without comparing the scores.
RecomputeEffectAlwaysReplacing ==
    LET updatedResults == [k \in 1..Len(results) |-> calculateFinalScore(results[k], weights)]
    IN
    /\ effects = {"recompute"}
    /\ IF Len(results) > 0
       THEN /\ results' = updatedResults
            /\ effects' = {"saveResults"}
       ELSE /\ results' = results
            /\ effects' = {}
    /\ UNCHANGED <<jdFile, cvFiles, weights, isProcessing, currentProcessingIndex,
                   runs, lastRun, storage, budget, fn, dash>>

\* useEffect of lines 62-72; a setResults here schedules the save effect
\* again (results is a new array) but not this one (results.length is the same)
RecomputeEffect ==
    LET updatedResults == [k \in 1..Len(results) |-> calculateFinalScore(results[k], weights)]
    IN
    /\ effects = {"recompute"}
    /\ IF Len(results) > 0 /\ ScoreString(results) # ScoreString(updatedResults)
       THEN /\ results' = updatedResults
            /\ effects' = {"saveResults"}
       ELSE /\ results' = results
            /\ effects' = {}
    /\ UNCHANGED <<jdFile, cvFiles, weights, isProcessing, currentProcessingIndex,
                   runs, lastRun, storage, budget, fn, dash>>

Next ==
    \/ HandleJdUpload
    \/ RemoveJd
    \/ \E n \in 1..2 : ProcessFiles(n)
    \/ \E k \in 1..Len(cvFiles) : RemoveCv(k)
    \/ \E key \in SliderKeys, value \in SliderValues : SetWeight(key, value)
    \/ ClearAllData
    \/ Reload
    \/ StartAnalysis
    \/ \E r \in 1..Len(runs), ok \in BOOLEAN : JdRead(r, ok)
    \/ \E r \in 1..Len(runs), ok \in BOOLEAN : CvRead(r, ok)
    \/ \E r \in 1..Len(runs), env \in AppEnvs : AiReturn(r, env)
    \/ SaveWeightsEffect
    \/ SaveResultsEffect
    \/ RecomputeEffect

Spec == Init /\ [][Next]_vars

\* A pending promise of an open invocation settles: the read of the job
\* description or of a CV resolves or is rejected, the collaborator call
\* returns.
RunStep ==
    \/ \E r \in 1..Len(runs), ok \in BOOLEAN : JdRead(r, ok)
    \/ \E r \in 1..Len(runs), ok \in BOOLEAN : CvRead(r, ok)
    \/ \E r \in 1..Len(runs), env \in AppEnvs : AiReturn(r, env)

\* A scheduled effect runs.
EffectStep == SaveWeightsEffect \/ SaveResultsEffect \/ RecomputeEffect

\* The App when every read and every collaborator call eventually returns
\* or fails, and React runs the effects it scheduled.
FairSpec == Spec /\ WF_vars(RunStep) /\ WF_vars(EffectStep)

(***************************************************************************)
(* Dashboard (src/components/Dashboard.tsx) with generateInterviewQuestions *)
(* and generateEmailDraft (src/services/gemini.ts), on a session whose     *)
(* results were loaded from local storage: no run is open, the weights can *)
(* be moved and the session reset.                                         *)
(***************************************************************************)
\* Candidates of the loaded session and requests of the Dashboard that may
\* be in flight at once.
MaxCandidates == 2
MaxRequests == 1

\* Ratings of the loaded candidates: a label that moves with the weights,
\* and the placeholder's ratings.
DashRatings == { Five(100, 0, 80, 80, 80), ZeroWeights }

\* A stored CandidateAnalysis, scored under w.
DashCandidate(id, ratings, w) ==
    calculateFinalScore(
        [id |-> id, candidateName |-> CsvName(id), ratings |-> ratings,
         strengths |-> << <<"S", "Q", "L">> >>, weaknesses |-> <<>>,
         finalScore |-> Num(0), fitLabel |-> "Low"], w)

\* What a request of the Dashboard may meet: a response with text, a
\* rejected request, a response without text, a text that is not JSON.
QuestionEnvs ==
    { Env(TRUE, TRUE, TRUE, TRUE, <<"Q1", "Q2">>), Env(TRUE, FALSE, TRUE, TRUE, <<>>),
      Env(TRUE, TRUE, FALSE, TRUE, <<>>), Env(TRUE, TRUE, TRUE, FALSE, <<>>) }

EmailEnvs ==
    { Env(TRUE, TRUE, TRUE, TRUE, "text"), Env(TRUE, FALSE, TRUE, TRUE, ""),
      Env(TRUE, TRUE, FALSE, TRUE, "") }

\* gemini.ts, lines 136-166
generateInterviewQuestions(env) ==
    IF ~env.apiKey THEN Throw("API Key not found")
    ELSE IF ~env.requestOk THEN Throw("generateContent rejected")
    ELSE IF ~env.hasText THEN Return(<<>>)
    ELSE IF ~env.parses THEN Throw("SyntaxError")
    ELSE Return(env.data)

\* gemini.ts, lines 168-190: the body the collaborator writes for the type
\* of the prompt, or the fallback text
generateEmailDraft(env, type) ==
    IF ~env.apiKey THEN Throw("API Key not found")
    ELSE IF ~env.requestOk THEN Throw("generateContent rejected")
    ELSE IF ~env.hasText THEN Return("Could not generate email.")
    ELSE Return(IF type = "invite" THEN "interview invitation" ELSE "rejection")

\* fetchEmail, line 64
EmailType(fitLabel) == IF fitLabel = "High" \/ fitLabel = "Medium" THEN "invite" ELSE "reject"

\* The header of the email tab, line 336
DraftShown(fitLabel) == IF fitLabel = "Low" THEN "Rejection" ELSE "Invitation"

\* The candidate with the given id in the list the Dashboard renders.
CandidateOf(id) == results[CHOOSE k \in 1..Len(results) : results[k].id = id]

DashInit ==
    /\ jdFile = FALSE
    /\ cvFiles = <<>>
    /\ weights \in StartWeights
    /\ isProcessing = FALSE
    /\ \E n \in 1..MaxCandidates, rs \in [1..MaxCandidates -> DashRatings] :
          results = [k \in 1..n |-> DashCandidate(k, rs[k], weights)]
    /\ currentProcessingIndex = -1
    /\ runs = <<>>
    /\ lastRun = NoRun
    /\ storage = [hasWeights |-> TRUE, weights |-> StringifyWeights(DEFAULT_WEIGHTS),
                  hasResults |-> TRUE, results |-> StringifyResults(results)]
    /\ effects = {"saveWeights", "saveResults", "recompute"}
    /\ budget = [ids |-> 0, reloads |-> 0]
    /\ fn = FnBlank
    /\ dash = DashBlank

\* toggleExpand, lines 38-45
ToggleExpand(id) ==
    /\ UserActs
    /\ \E k \in 1..Len(results) : results[k].id = id
    /\ dash' = IF dash.expandedId = id THEN [dash EXCEPT !.expandedId = 0]
               ELSE [dash EXCEPT !.expandedId = id, !.activeTab = "analysis"]
    /\ runs' = Touched(runs)
    /\ UNCHANGED <<jdFile, cvFiles, weights, isProcessing, results, currentProcessingIndex,
                   storage, effects, budget, fn>>

\* Variant: the handlers do not look at what is stored.
HandleTabChangeRefetching(tab) ==
    LET candidate == CandidateOf(dash.expandedId)
        request == [kind |-> tab, id |-> candidate.id,
                    type |-> IF tab = "email" THEN EmailType(candidate.fitLabel) ELSE ""]
    IN
    /\ UserActs
    /\ dash.expandedId # 0
    /\ IF tab # "analysis"
       THEN /\ Len(dash.requests) < MaxRequests
            /\ dash' = [dash EXCEPT !.activeTab = tab, !.loadingAction = tab,
                                    !.requests = Append(@, request)]
       ELSE dash' = [dash EXCEPT !.activeTab = tab]
    /\ runs' = Touched(runs)
    /\ UNCHANGED <<jdFile, cvFiles, weights, isProcessing, results, currentProcessingIndex,
                   storage, effects, budget, fn>>

\* handleTabChange, lines 74-78, on a tab of the expanded candidate, with
\* fetchQuestions (lines 47-50) and fetchEmail (lines 60-65) up to their
\* await: nothing is asked for when the map has a value for the id.
HandleTabChange(tab) ==
    LET candidate == CandidateOf(dash.expandedId)
        stored == \/ tab = "questions" /\ dash.questionsMap[candidate.id].stored
                  \/ tab = "email" /\ dash.emailMap[candidate.id].stored
        request == [kind |-> tab, id |-> candidate.id,
                    type |-> IF tab = "email" THEN EmailType(candidate.fitLabel) ELSE ""]
    IN
    /\ UserActs
    /\ dash.expandedId # 0
    /\ IF tab # "analysis" /\ ~stored
       THEN /\ Len(dash.requests) < MaxRequests
            /\ dash' = [dash EXCEPT !.activeTab = tab, !.loadingAction = tab,
                                    !.requests = Append(@, request)]
       ELSE dash' = [dash EXCEPT !.activeTab = tab]
    /\ runs' = Touched(runs)
    /\ UNCHANGED <<jdFile, cvFiles, weights, isProcessing, results, currentProcessingIndex,
                   storage, effects, budget, fn>>

\* fetchQuestions from its await on, lines 51-57
QuestionsReturn(k, env) ==
    LET call == generateInterviewQuestions(env) IN
    /\ effects = {}
    /\ dash.requests[k].kind = "questions"
    /\ dash' = [dash EXCEPT
                  !.requests = RemoveAt(@, k),
                  !.loadingAction = "",
                  !.questionsMap =
                      IF call.threw THEN @
                      ELSE [@ EXCEPT ![dash.requests[k].id] =
                                        [stored |-> TRUE, value |-> call.value]]]
    /\ UNCHANGED <<jdFile, cvFiles, weights, isProcessing, results, currentProcessingIndex,
                   runs, lastRun, storage, effects, budget, fn>>

\* fetchEmail from its await on, lines 65-71
EmailReturn(k, env) ==
    LET call == generateEmailDraft(env, dash.requests[k].type) IN
    /\ effects = {}
    /\ dash.requests[k].kind = "email"
    /\ dash' = [dash EXCEPT
                  !.requests = RemoveAt(@, k),
                  !.loadingAction = "",
                  !.emailMap =
                      IF call.threw THEN @
                      ELSE [@ EXCEPT ![dash.requests[k].id] =
                                        [stored |-> TRUE, value |-> call.value,
                                         type |-> dash.requests[k].type]]]
    /\ UNCHANGED <<jdFile, cvFiles, weights, isProcessing, results, currentProcessingIndex,
                   runs, lastRun, storage, effects, budget, fn>>

\* handleDownload, lines 31-34: generateCSV sorts the array it is given,
\* which is the array of the results state (part_002, line 427); no state
\* is set, so no effect runs.  The text goes to downloadCSV, which hands
\* it to the browser.
HandleDownload ==
    /\ UserActs
    /\ Len(results) > 0
    /\ results' = generateCSV(results).candidates
    /\ runs' = Touched(runs)
    /\ UNCHANGED <<jdFile, cvFiles, weights, isProcessing, currentProcessingIndex,
                   storage, effects, budget, fn, dash>>

DashNext ==
    \/ \E id \in 1..MaxCandidates : ToggleExpand(id)
    \/ \E tab \in {"analysis", "questions", "email"} : HandleTabChange(tab)
    \/ \E k \in 1..Len(dash.requests), env \in QuestionEnvs : QuestionsReturn(k, env)
    \/ \E k \in 1..Len(dash.requests), env \in EmailEnvs : EmailReturn(k, env)
    \/ HandleDownload
    \/ \E key \in SliderKeys, value \in SliderValues : SetWeight(key, value)
    \/ ClearAllData
    \/ SaveWeightsEffect
    \/ SaveResultsEffect
    \/ RecomputeEffect

DashSpec == DashInit /\ [][DashNext]_vars

(***************************************************************************)
(* The pure functions on their own                                         *)
(***************************************************************************)
FnInit ==
    /\ jdFile = FALSE
    /\ cvFiles = <<>>
    /\ weights = DEFAULT_WEIGHTS
    /\ isProcessing = FALSE
    /\ results = <<>>
    /\ currentProcessingIndex = -1
    /\ runs = <<>>
    /\ lastRun = NoRun
    /\ storage = [hasWeights |-> TRUE, weights |-> StringifyWeights(weights),
                  hasResults |-> FALSE, results |-> <<>>]
    /\ effects = {}
    /\ budget = [ids |-> 0, reloads |-> 0]
    /\ dash = DashBlank
    /\ \/ fn \in FnScoreInputs \cup FnAnalyzeInputs \cup FnCsvInputs
       \/ \E r \in FiveOver({0, 100}), key \in Keys, p \in RaisedPairs, w \in FiveOver(WeightGrid) :
             fn = FnRaiseInput(r, key, p, w)
       \/ \E lit \in RatingLiterals, other \in {0, 100} :
             \E w \in {SkillsOnlyWeights} \cup (IF lit.k > 2 THEN {DEFAULT_WEIGHTS} ELSE {}) :
                fn = FnIEEEInput(lit, other, w)

SpecFn == FnInit /\ [][FnNext]_vars

(***************************************************************************)
(* Properties: the batch loop                                              *)
(***************************************************************************)
Pos(files, id) == { k \in 1..Len(files) : files[k].id = id }

ResultIds == [k \in 1..Len(results) |-> results[k].id]

\* The ids of the batch whose handling ended "ok", in batch order.
RECURSIVE OkIds(_, _, _)
OkIds(batch, outcomes, k) ==
    IF k > Len(outcomes) THEN <<>>
    ELSE (IF outcomes[k] = "ok" THEN <<batch[k]>> ELSE <<>>) \o OkIds(batch, outcomes, k + 1)

\* C1: after a batch run during which the user did nothing, every file whose
\* analysis succeeded is completed, every file whose analysis failed (the
\* read or the collaborator call) is error, and the Result Store holds the
\* succeeded files' entries, one each, in upload order.
C1_EndStateOfUndisturbedRun ==
    lastRun.valid =>
        /\ Len(cvFiles) = Len(lastRun.batch)
        /\ \A k \in 1..Len(lastRun.outcomes) :
              /\ cvFiles[k].id = lastRun.batch[k]
              /\ cvFiles[k].status =
                    (IF lastRun.outcomes[k] = "ok" THEN "completed" ELSE "error")
        /\ ResultIds = OkIds(lastRun.batch, lastRun.outcomes, 1)

\* The handling of the file at index i of run r ends in this step with a
\* failure: its read is rejected, or the collaborator call meets a failure.
ReadFailsStep(r) == runs[r].pc = "readCv" /\ CvRead(r, FALSE)

AiFailsStep(r) ==
    /\ runs[r].pc = "analyze"
    /\ \E env \in AppEnvs : EnvFails(env) /\ AiReturn(r, env)

\* The file run r is handling.
Handled(r) == runs[r].batch[runs[r].i + 1]

\* C2: a failure while handling file i marks that file as error with a short
\* message, and the run goes on: the next file of the batch is taken to
\* processing.
C2_FailureMarksErrorAndRunContinues ==
    [][\A r \in 1..Len(runs) :
          (ReadFailsStep(r) \/ AiFailsStep(r)) =>
              /\ \A k \in Pos(cvFiles', Handled(r)) :
                    cvFiles'[k].status = "error" /\ cvFiles'[k].error # ""
              /\ runs[r].i + 1 < Len(runs[r].batch) =>
                    /\ Len(runs') = Len(runs)
                    /\ runs'[r].i = runs[r].i + 1
                    /\ \A k \in Pos(cvFiles', runs[r].batch[runs[r].i + 2]) :
                          cvFiles'[k].status = "processing"]_vars

\* C3: during batch analysis a failure of the collaborator call for a file
\* leaves that file with status error.
C3_AiFailureIsErrorStatus ==
    [][\A r \in 1..Len(runs) :
          AiFailsStep(r) =>
              \A k \in Pos(cvFiles', Handled(r)) : cvFiles'[k].status = "error"]_vars

\* C4: at most one startAnalysis invocation is open and at most one
\* analyzeCandidate call is in flight; while a run is open isProcessing is
\* set and the Run button is disabled.
C4_OneAtATime ==
    /\ Len(runs) <= 1
    /\ Cardinality({ r \in 1..Len(runs) : runs[r].pc = "analyze" }) <= 1
    /\ Len(runs) = 1 => (isProcessing /\ RunButtonDisabled)

\* The call for the second file of a batch is in flight.
C4_Witness ==
    \E r \in 1..Len(runs) : runs[r].pc = "analyze" /\ runs[r].i >= 1

StatusStep(a, b) ==
    \/ a = b
    \/ a = "pending" /\ b = "processing"
    \/ a = "processing" /\ b \in {"completed", "error"}

\* C5: a file enters the list as pending and its status moves only along
\* pending -> processing -> completed | error; completed and error are final.
C5_StatusLifecycle ==
    [][\A j \in 1..Len(cvFiles') :
          IF Pos(cvFiles, cvFiles'[j].id) = {}
          THEN cvFiles'[j].status = "pending"
          ELSE \A k \in Pos(cvFiles, cvFiles'[j].id) :
                  StatusStep(cvFiles[k].status, cvFiles'[j].status)]_vars

(***************************************************************************)
(* Properties: analyzeCandidate and calculateFinalScore                    *)
(***************************************************************************)
\* C6: analyzeCandidate never throws; when it meets a failure it returns a
\* well-formed record whose five ratings are 0 and whose reasoning is the
\* explanatory note.
C6_AnalyzeNeverThrows ==
    fn.phase = "analyzed" =>
        /\ ~fn.call.threw
        /\ DOMAIN fn.call.value = {"candidateName", "ratings", "reasoning"}
        /\ DOMAIN fn.call.value.ratings = Keys
        /\ EnvFails(fn.env) =>
              /\ \A key \in Keys : fn.call.value.ratings[key] = 0
              /\ fn.call.value.reasoning = PLACEHOLDER_REASONING

\* A call without an API key has returned.
C6_Witness ==
    fn.phase = "analyzed" /\ ~fn.env.apiKey /\ fn.call.value.reasoning = PLACEHOLDER_REASONING

Scored == fn.kind = "score" /\ fn.phase \in {"scored", "rescored"}

\* C7: for weights with positive sum finalScore is
\* sum(rating_i * weight_i) / sum(weight_i) and lies in [0, 100].
C7_WeightedMean ==
    (Scored /\ TotalWeight(fn.w) > 0) =>
        \A o \in {fn.out, fn.outStored} :
            /\ o.finalScore.den > 0
            /\ o.finalScore.num * TotalWeight(fn.w)
                  = RawScore(fn.c.ratings, fn.w) * o.finalScore.den
            /\ 0 <= o.finalScore.num
            /\ o.finalScore.num <= 100 * o.finalScore.den

\* A score strictly inside (0, 100) that is no whole number.
C7_Witness ==
    /\ Scored /\ TotalWeight(fn.w) > 0
    /\ fn.out.finalScore.den > 1
    /\ fn.out.finalScore.num > 0

\* C8: for weights with positive sum fitLabel is High exactly when
\* finalScore >= 80, Medium exactly when 50 <= finalScore < 80, Low otherwise.
C8_FitLabelThresholds ==
    (Scored /\ TotalWeight(fn.w) > 0) =>
        LET n == fn.out.finalScore.num
            d == fn.out.finalScore.den
        IN  /\ d > 0
            /\ (fn.out.fitLabel = "High") = (n >= 80 * d)
            /\ (fn.out.fitLabel = "Medium") = (n >= 50 * d /\ n < 80 * d)
            /\ (fn.out.fitLabel = "Low") = (n < 50 * d)

\* A score of exactly 80, from ratings that are not all 80, is labelled High.
C8_Witness ==
    /\ Scored /\ TotalWeight(fn.w) > 0
    /\ fn.out.finalScore = Num(80) /\ fn.out.fitLabel = "High"
    /\ fn.c.ratings # Five(80, 80, 80, 80, 80)

\* C9: with all five weights zero calculateFinalScore returns each stored
\* candidate unchanged, and the recompute effect leaves the Result Store as
\* it was.
C9_ZeroWeightsNoOp ==
    [][TotalWeight(weights) = 0 =>
          /\ \A k \in 1..Len(results) : calculateFinalScore(results[k], weights) = results[k]
          /\ (effects = {"recompute"} /\ effects' # effects) => results' = results]_vars

\* The recompute effect has run on all-zero weights over a store whose
\* candidates were scored before the weights became zero.
C9_Witness ==
    /\ TotalWeight(weights) = 0
    /\ effects = {}
    /\ \E k \in 1..Len(results) : results[k].finalScore.num > 0

\* C10 as stated: the result's finalScore and fitLabel depend only on the
\* ratings and the weights (two candidates with the same ratings get the
\* same ones), and applying the function twice gives what applying it once
\* gives.
C10_PureInRatingsAndIdempotent ==
    fn.phase = "rescored" =>
        /\ fn.out.finalScore = fn.outStored.finalScore
        /\ fn.out.fitLabel = fn.outStored.fitLabel
        /\ fn.again.finalScore = fn.out.finalScore
        /\ fn.again.fitLabel = fn.out.fitLabel

\* C10 amended: applying the function twice gives what applying it once
\* gives; the result's finalScore and fitLabel depend only on the ratings and
\* the weights when the weights have a positive sum, and are the candidate's
\* own finalScore and fitLabel when the weights sum to zero.
C10_IdempotentAndPureForPositiveSum ==
    fn.phase = "rescored" =>
        /\ fn.again = fn.out
        /\ TotalWeight(fn.w) > 0 =>
              /\ fn.out.finalScore = fn.outStored.finalScore
              /\ fn.out.fitLabel = fn.outStored.fitLabel
        /\ TotalWeight(fn.w) = 0 =>
              /\ fn.out.finalScore = fn.c.finalScore /\ fn.out.fitLabel = fn.c.fitLabel
              /\ fn.outStored.finalScore = fn.stored.finalScore
              /\ fn.outStored.fitLabel = fn.stored.fitLabel

\* Two candidates with the same ratings and different previous scores have
\* been rescored under weights of positive sum, to a score that is neither's
\* previous one.
C10_Witness ==
    /\ fn.phase = "rescored" /\ TotalWeight(fn.w) > 0
    /\ fn.stored.finalScore # fn.c.finalScore
    /\ fn.outStored.finalScore # fn.stored.finalScore
    /\ fn.out.finalScore # fn.c.finalScore

\* C11: for weights with positive sum, raising one rating while the other
\* four ratings and the weights stay fixed never lowers finalScore.
C11_MonotoneInEachRating ==
    (fn.phase = "raised" /\ TotalWeight(fn.w) > 0) =>
        Leq(fn.out.finalScore, fn.outHi.finalScore)

\* A raised rating whose weight is positive has raised the score, next to
\* ratings that are not all equal.
C11_Witness ==
    /\ fn.phase = "raised" /\ TotalWeight(fn.w) > 0
    /\ fn.hi.ratings # fn.c.ratings
    /\ fn.out.finalScore # fn.outHi.finalScore
    /\ Leq(fn.out.finalScore, fn.outHi.finalScore)
    /\ fn.out.finalScore.num > 0

\* C12 as stated: with weights skillsMatch = 100 and the other four 0,
\* finalScore equals the skillsMatch rating exactly, for every rating value.
C12_SkillsOnlyGivesRatingExactly ==
    (fn.kind = "ieee" /\ fn.phase = "scored" /\ fn.w = SkillsOnlyWeights) =>
        fn.outIEEE.finalScore = fn.c.ratings.skillsMatch

\* C12 amended: with weights skillsMatch = 100 and the other four 0,
\* finalScore equals the skillsMatch rating exactly for every rating of
\* 0..100 that has at most two decimal places (whole numbers among them).
C12_SkillsOnlyGivesTwoDecimalRatingExactly ==
    (fn.kind = "ieee" /\ fn.phase = "scored" /\ fn.w = SkillsOnlyWeights /\ fn.lit.k <= 2) =>
        fn.outIEEE.finalScore = fn.c.ratings.skillsMatch

\* The rating 91.2, which is no double, has come back as the score next to
\* other ratings of 100.
C12_Witness ==
    /\ fn.kind = "ieee" /\ fn.phase = "scored" /\ fn.w = SkillsOnlyWeights
    /\ fn.lit = [n |-> 9120, k |-> 2]
    /\ fn.c.ratings.clarity = DFromDecimal(100, 0)
    /\ fn.outIEEE.finalScore = DFromDecimal(912, 1)
    /\ fn.outIEEE.fitLabel = "High"

AllRatings(c, v) == \A key \in Keys : c.ratings[key] = v

\* C13 as stated: for every weight configuration a candidate whose ratings
\* are all 0 is labelled Low and one whose ratings are all 100 is labelled
\* High, when first scored in a batch run and after a recomputation.
C13_AllZeroLowAllHundredHigh ==
    Scored =>
        /\ AllRatings(fn.c, 0) => (fn.out.fitLabel = "Low" /\ fn.outStored.fitLabel = "Low")
        /\ AllRatings(fn.c, 100) => (fn.out.fitLabel = "High" /\ fn.outStored.fitLabel = "High")

\* C13 amended: that holds for every weight configuration with positive sum;
\* with all five weights zero the candidate keeps the label it came with,
\* which is Low for a candidate first scored in a batch run.
C13_AllZeroLowAllHundredHighForPositiveSum ==
    Scored =>
        /\ TotalWeight(fn.w) > 0 =>
              /\ AllRatings(fn.c, 0) =>
                    (fn.out.fitLabel = "Low" /\ fn.outStored.fitLabel = "Low")
              /\ AllRatings(fn.c, 100) =>
                    (fn.out.fitLabel = "High" /\ fn.outStored.fitLabel = "High")
        /\ TotalWeight(fn.w) = 0 =>
              (fn.out.fitLabel = "Low" /\ fn.outStored.fitLabel = fn.stored.fitLabel)

\* A candidate with all ratings 100 has been labelled High under weights of
\* which only one is positive.
C13_Witness ==
    /\ Scored /\ AllRatings(fn.c, 100)
    /\ TotalWeight(fn.w) = 10
    /\ fn.out.fitLabel = "High" /\ fn.out.finalScore = Num(100)

(***************************************************************************)
(* Properties: recomputation and persistence                               *)
(***************************************************************************)
\* The recompute effect runs in this step.
RecomputeStep == effects = {"recompute"} /\ effects' # effects

\* C14: when the weights have a positive sum and no recompute step is
\* pending, every candidate of the Result Store has the finalScore and the
\* fitLabel the scoring function gives for its ratings and the current
\* weights.
C14_StoreScoredUnderCurrentWeights ==
    ("recompute" \notin effects /\ TotalWeight(weights) > 0) =>
        \A k \in 1..Len(results) :
            /\ results[k].finalScore = calculateFinalScore(results[k], weights).finalScore
            /\ results[k].fitLabel = calculateFinalScore(results[k], weights).fitLabel

\* The recompute step has replaced the scores of a store that had been
\* persisted under the previous weights.
C14_Witness ==
    /\ effects = {"saveResults"} /\ TotalWeight(weights) > 0
    /\ Len(results) > 0 /\ Len(storage.results) = Len(results)
    /\ ParseResults(storage.results)[1].finalScore # results[1].finalScore
    /\ ParseResults(storage.results)[1].fitLabel # results[1].fitLabel

\* C15: the recompute step changes nothing of the Result Store but the
\* finalScore and the fitLabel of its candidates: their number, order, ids,
\* ratings and other fields stay.
C15_RecomputeAltersOnlyScoreAndLabel ==
    [][RecomputeStep =>
          /\ Len(results') = Len(results)
          /\ \A k \in 1..Len(results) :
                [results'[k] EXCEPT !.finalScore = results[k].finalScore,
                                    !.fitLabel = results[k].fitLabel] = results[k]]_vars

\* The recompute step has rescored a store of two candidates.
C15_Witness ==
    /\ effects = {"saveResults"}
    /\ Len(results) >= 2 /\ Len(storage.results) = Len(results)
    /\ results[1].id # results[2].id
    /\ \A k \in 1..Len(results) :
          /\ ParseResults(storage.results)[k].id = results[k].id
          /\ ParseResults(storage.results)[k].finalScore # results[k].finalScore

\* C16: once the save-results effect has run, the persisted result blob is
\* the Result Store, and it is absent when the Result Store is empty.
C16_PersistedResultsEqualStore ==
    "saveResults" \notin effects =>
        IF Len(results) = 0 THEN ~storage.hasResults
        ELSE storage.hasResults /\ ParseResults(storage.results) = results

\* The weights are in the storage whenever no save-weights effect is pending.
WeightsSaved ==
    "saveWeights" \notin effects =>
        (storage.hasWeights /\ ParseWeights(storage.weights) = weights)

\* C17: every change of the weights is written to the storage, and the
\* weights in effect after a startup are the weights of the session before.
C17_WeightsRoundTrip ==
    [][/\ WeightsSaved /\ WeightsSaved'
       /\ Reload => weights' = weights]_vars

\* A session started on the weights a previous session had changed, and
\* its effects have run.
C17_Witness ==
    /\ budget.reloads = 1 /\ effects = {}
    /\ weights \notin StartWeights
    /\ ParseWeights(storage.weights) = weights

(***************************************************************************)
(* Properties: the Result Store during a run                               *)
(***************************************************************************)
\* C18: while a batch run is in progress (and the page stays loaded) the
\* Result Store changes only by the batch loop appending an entry.
C18_LoopIsOnlyWriterWhileProcessing ==
    [][(isProcessing /\ results' # results /\ ~Reload) =>
          /\ \E r \in 1..Len(runs), env \in AppEnvs : AiReturn(r, env)
          /\ Len(results') = Len(results) + 1
          /\ SubSeq(results', 1, Len(results)) = results]_vars

\* C19: nothing the user does to the file list takes a file out of the batch
\* of an open run.  While the page stays loaded the batch of the run is the
\* one captured at the click, the loop moves through it one file at a time
\* and returns only past its last file (or when the JD cannot be read), and
\* each analysis that returns a record appends an entry with the id of the
\* file in turn, whether or not that file is still in the list.
C19_RemovalDoesNotCancelAnalysis ==
    [][~Reload =>
          \A r \in 1..Len(runs) :
              /\ Len(runs') = Len(runs) =>
                    /\ runs'[r].batch = runs[r].batch
                    /\ runs'[r].i \in {runs[r].i, runs[r].i + 1}
              /\ Len(runs') < Len(runs) =>
                    \/ runs[r].pc = "readJd"
                    \/ runs[r].i + 1 = Len(runs[r].batch)
              /\ (runs[r].pc = "analyze" /\ \E env \in AppEnvs : AiReturn(r, env)) =>
                    /\ Len(results') = Len(results) + 1
                    /\ SubSeq(results', 1, Len(results)) = results
                    /\ results'[Len(results')].id = Handled(r)]_vars

\* The analysis of a file that the user had removed from the list has just
\* returned and its entry is the last of the Result Store, while the run
\* goes on with the next file.
C19_Witness ==
    /\ effects = {"saveResults", "recompute"}
    /\ Len(results) > 0
    /\ \E r \in 1..Len(runs) :
          /\ runs[r].pc = "readCv" /\ runs[r].i >= 1
          /\ results[Len(results)].id = runs[r].batch[runs[r].i]
          /\ Pos(cvFiles, runs[r].batch[runs[r].i]) = {}
          /\ Pos(cvFiles, Handled(r)) # {}

(***************************************************************************)
(* Properties: generateCSV                                                 *)
(***************************************************************************)
\* C20: after the header row the report has one row per candidate, the
\* rows are those of the candidates in order of non-increasing finalScore,
\* and the Rank column of the k-th row is k.
C20_RowsByDescendingScoreRankedFromOne ==
    (fn.kind = "csv" /\ fn.phase = "exported") =>
        LET rows == Tail(fn.report.csv)
            order == fn.report.candidates
        IN  /\ Head(fn.report.csv) = CSV_HEADERS
            /\ Len(rows) = Len(fn.list)
            /\ Len(order) = Len(fn.list)
            /\ \A c \in { fn.list[k] : k \in 1..Len(fn.list) } :
                  \E k \in 1..Len(order) : order[k] = c
            /\ \A k \in 1..(Len(order) - 1) :
                  Leq(order[k + 1].finalScore, order[k].finalScore)
            /\ \A k \in 1..Len(rows) :
                  /\ rows[k][1] = ToDigits(k)
                  /\ rows[k][2] = CsvQuoted(order[k].candidateName)
                  /\ rows[k][3] = ToFixed1(order[k].finalScore)

\* Two candidates with scores 54.0 and 91.2, given in that order, are
\* reported as rank 1 with 91.2 and rank 2 with 54.0.
C20_Witness ==
    /\ fn.kind = "csv" /\ fn.phase = "exported"
    /\ Len(fn.list) = 2
    /\ fn.list[1].finalScore = Num(54) /\ fn.list[2].finalScore = Quot(456, 5)
    /\ fn.report.csv[2][1] = <<1>>
    /\ fn.report.csv[2][3] = [whole |-> <<9, 1>>, tenth |-> 2]
    /\ fn.report.csv[2][2] = <<"\"", "B", "o", ",", " ", "\"", "\"", "J", "\"", "\"", "\"">>
    /\ fn.report.csv[2][8] = <<"\"", "S", "Q", "L", ";", " ", "\"", "\"", "G", "o", "\"", "\"", "\"">>
    /\ fn.report.csv[2][9] = <<"\"", "\"">>
    /\ fn.report.csv[3][1] = <<2>>
    /\ fn.report.csv[3][3] = [whole |-> <<5, 4>>, tenth |-> 0]

(***************************************************************************)
(* Properties: failures and statuses during a run                          *)
(***************************************************************************)
\* The read of the job-description file of run r is rejected in this step.
JdReadFailsStep(r) == runs[r].pc = "readJd" /\ JdRead(r, FALSE)

\* C21: a failure to read a file during a run, the job-description file or
\* a CV file, shows as a per-file error status and the run goes on with the
\* remaining files: after a CV read failure that file is error and the
\* next file of the batch is taken up, after a job-description read
\* failure an error status is shown in the list and the run is still open
\* and takes up the first file.
C21_ReadFailureIsPerFileErrorAndRunContinues ==
    [][\A r \in 1..Len(runs) :
          /\ ReadFailsStep(r) =>
                /\ \A k \in Pos(cvFiles', Handled(r)) : cvFiles'[k].status = "error"
                /\ runs[r].i + 1 < Len(runs[r].batch) =>
                      /\ Len(runs') = Len(runs)
                      /\ runs'[r].i = runs[r].i + 1
          /\ JdReadFailsStep(r) =>
                /\ \E k \in 1..Len(cvFiles') : cvFiles'[k].status = "error"
                /\ Len(runs') = Len(runs)
                /\ runs'[r].pc = "readCv" /\ runs'[r].i = 0]_vars

\* Positions of the list whose file has the given status.
WithStatus(status) == { k \in 1..Len(cvFiles) : cvFiles[k].status = status }

\* C22: at any time at most one file of the list has status processing,
\* whatever uploads and removals happen during a run.
C22_AtMostOneFileProcessing == Cardinality(WithStatus("processing")) <= 1

\* C24: each file of the list with status completed has an entry in the
\* Result Store with that file's id, and no two entries of the Result Store
\* have the same id.
C24_CompletedFilesHaveTheirResult ==
    /\ \A k \in WithStatus("completed") :
          \E j \in 1..Len(results) : results[j].id = cvFiles[k].id
    /\ \A j, l \in 1..Len(results) : results[j].id = results[l].id => j = l

\* No invocation of startAnalysis is open and the flags say so.
Idle == runs = <<>> /\ ~isProcessing /\ currentProcessingIndex = -1

\* Every run terminates when reads and calls settle.
RunsTerminate == (runs # <<>>) ~> Idle

\* C23: every run terminates provided each file read and each collaborator
\* call eventually returns or fails: eventually isProcessing is false and
\* currentProcessingIndex is -1, and once the run is over no file of the
\* list has status processing, whatever the user removed or added during
\* the run.
C23_RunTerminatesAndLeavesNoFileProcessing ==
    /\ RunsTerminate
    /\ [](Idle => WithStatus("processing") = {})

(***************************************************************************)
(* Properties: reset and recomputation                                     *)
(***************************************************************************)
\* C25: after a confirmed reset the Result Store, the CV list and the job
\* description are empty and the persisted result blob is removed, the
\* weights are as before, and the Result Store stays empty until a new run
\* is started, also when a run was open at the reset: as long as that run
\* is open the store is empty.
C25_ResetEmptiesSessionUntilNextRun ==
    /\ [][ClearAllData =>
             /\ results' = <<>> /\ cvFiles' = <<>> /\ ~jdFile'
             /\ ~storage'.hasResults
             /\ weights' = weights]_vars
    /\ [](\A r \in 1..Len(runs) : runs[r].cleared => results = <<>>)

\* The list recomputed under the given weights.
Recomputed(rs, w) == [k \in 1..Len(rs) |-> calculateFinalScore(rs[k], w)]

SameScores(rs, ts) ==
    Len(rs) = Len(ts) /\ \A k \in 1..Len(rs) : rs[k].finalScore = ts[k].finalScore

\* C26: when the recomputation gives every stored candidate the finalScore
\* it has, the recompute step does not replace the Result Store (no
\* setResults, so no effect is scheduled); and a recompute step leaves a
\* store that recomputation under the same weights gives the same scores,
\* without scheduling itself again: after one weight change the store is
\* replaced at most once.
C26_RecomputeReachesFixedPoint ==
    [][RecomputeStep =>
          /\ SameScores(Recomputed(results, weights), results) =>
                (results' = results /\ effects' = {})
          /\ SameScores(Recomputed(results', weights'), results')
          /\ "recompute" \notin effects']_vars

\* The recompute step has run under weights other than the defaults on a
\* store whose scores they leave as they are, and has scheduled nothing:
\* the blob holds the very scores of the store.
C26_Witness ==
    /\ effects = {} /\ ~isProcessing /\ runs = <<>>
    /\ Len(results) > 0 /\ storage.hasResults
    /\ weights # DEFAULT_WEIGHTS
    /\ ParseWeights(storage.weights) = weights
    /\ SameScores(ParseResults(storage.results), results)
    /\ SameScores(Recomputed(results, DEFAULT_WEIGHTS), results)

(***************************************************************************)
(* Properties: the Dashboard                                               *)
(***************************************************************************)
\* C27: exporting the CSV report leaves the Result Store unchanged:
\* generateCSV does not alter the order or the content of the list it is
\* given, so the results are in the same order after a download.
C27_ExportLeavesStoreUnchanged == [][HandleDownload => results' = results]_vars

\* A request of the given kind for the given candidate is issued in this
\* step.
Issued(kind, id) ==
    /\ Len(dash'.requests) = Len(dash.requests) + 1
    /\ dash'.requests[Len(dash'.requests)].kind = kind
    /\ dash'.requests[Len(dash'.requests)].id = id

\* C28: once the interview questions, or the email draft, of a candidate
\* have been generated and stored, selecting that tab again for the same
\* candidate issues no further request to the collaborator.
C28_StoredContentIsNotRefetched ==
    [][\A id \in 1..MaxFiles :
          /\ dash.questionsMap[id].stored => ~Issued("questions", id)
          /\ dash.emailMap[id].stored => ~Issued("email", id)
          /\ \A tab \in {"questions", "email"} :
                (/\ dash.expandedId = id
                 /\ HandleTabChange(tab)
                 /\ IF tab = "questions" THEN dash.questionsMap[id].stored
                    ELSE dash.emailMap[id].stored)
                => (dash'.requests = dash.requests /\ dash'.loadingAction = dash.loadingAction)]_vars

\* The questions and the email of the expanded candidate are stored, the
\* email tab is shown with its draft, and nothing is in flight: the user
\* has come back to a tab whose content was generated before.
C28_Witness ==
    /\ dash.expandedId # 0
    /\ dash.questionsMap[dash.expandedId].stored
    /\ dash.questionsMap[dash.expandedId].value # <<>>
    /\ dash.emailMap[dash.expandedId].stored
    /\ dash.activeTab = "email"
    /\ dash.requests = <<>> /\ dash.loadingAction = ""

\* The type the header of the email tab stands for.
TypeShown(fitLabel) == IF DraftShown(fitLabel) = "Rejection" THEN "reject" ELSE "invite"

\* C29: for every candidate with a stored email draft, the draft type shown
\* (Rejection when fitLabel is Low, Invitation otherwise) is the type the
\* stored email was generated with (reject for Low, invite for High or
\* Medium), also after weight changes.
C29_DraftTypeShownMatchesStoredEmail ==
    \A k \in 1..Len(results) :
        dash.emailMap[results[k].id].stored =>
            TypeShown(results[k].fitLabel) = dash.emailMap[results[k].id].type

====
